---- MODULE Spec2Model ----
(***************************************************************************)
(* Model of the README updater of the Hack4Good idea-submission repository *)
(* (scripts/update-readme.js, the upgraded version): record parsing, the   *)
(* attribution cache file, the table renderer, the marker-bounded document *)
(* injector and the main pipeline.                                         *)
(*                                                                         *)
(* Text is modelled as a sequence of tokens.  A token is a record with a   *)
(* field k naming its kind: the two sentinel markers, a newline, a space,  *)
(* a run of ordinary text, the auto-update notice, a "Last updated" line,  *)
(* the rendered header block and table, and the `$` patterns that          *)
(* String.prototype.replace interprets in a replacement string.            *)
(***************************************************************************)
EXTENDS Integers, Sequences, FiniteSets, TLC

VARIABLES
    files,      \* input record files on disk: path -> content descriptor
    remote,     \* what git history and the hosting API answer, per path
    env,        \* environment variables of the process: [PR_NUMBER]
    readme,     \* README.md: [exists, text]
    backup,     \* README_backup.md: [exists, text]
    cacheFile,  \* .idea_attribution.json: file content descriptor
    now,        \* the wall clock: one tick per run of main
    last,       \* observation of the most recent run of main
    fin,        \* input of the pure function under check
    fout,       \* its output
    fop         \* which pure function has been applied ("init" before)

vars == <<files, remote, env, readme, backup, cacheFile, now, last, fin, fout, fop>>
pipeVars == <<files, remote, env, readme, backup, cacheFile, now, last>>
pureVars == <<fin, fout, fop>>

(***************************************************************************)
(* Bounds of the model.                                                    *)
(***************************************************************************)
MaxDocLen == 3
MaxBlockLen == 1
MaxRuns == 3
MaxPulls == 2
MaxRecords == 3

(***************************************************************************)
(* Tokens.                                                                 *)
(***************************************************************************)
Tok(kind) == [k |-> kind]

MARKER_START == Tok("S")
MARKER_END == Tok("E")
NL == Tok("nl")
SP == Tok("sp")
TXT == Tok("t")
\* "_Updated automatically on merge to `main`._"
NOTICE == Tok("U")
\* "_Last updated: <d>_"
LastUpdatedLine(d) == [k |-> "LU", d |-> d]
\* README_PATH missing: readReadme's default "# Hack4Good\n\n"
DefaultReadme == <<TXT, NL, NL>>

IsWhitespace(tok) == tok.k \in {"nl", "sp"}
\* the token's text ends with an underscore character
EndsWithUnderscore(tok) == tok.k \in {"U", "LU"}

\* the one element of a singleton set: Pick({e(x) : x \in {v}}) is e(v)
Pick(S) == CHOOSE x \in S : TRUE

Includes(text, tok) == \E i \in 1..Len(text) : text[i] = tok

\* String.prototype.trimEnd
RECURSIVE trimEnd(_)
trimEnd(text) ==
    IF text = <<>> THEN <<>>
    ELSE IF IsWhitespace(text[Len(text)]) THEN trimEnd(SubSeq(text, 1, Len(text) - 1))
    ELSE text

\* The replacement-string patterns of String.prototype.replace, for the
\* pattern (START)([\s\S]*?)(END): pre is the text before the match, m1, m2,
\* m3 the three groups, post the text after the match.
ExpandToken(tok, pre, m1, m2, m3, post) ==
    CASE tok.k = "$$" -> <<Tok("$")>>
      [] tok.k = "$&" -> m1 \o m2 \o m3
      [] tok.k = "$`" -> pre
      [] tok.k = "$'" -> post
      [] tok.k = "$1" -> m1
      [] tok.k = "$2" -> m2
      [] tok.k = "$3" -> m3
      [] OTHER -> <<tok>>

RECURSIVE ExpandReplacement(_, _, _, _, _, _)
ExpandReplacement(repl, pre, m1, m2, m3, post) ==
    IF repl = <<>> THEN <<>>
    ELSE ExpandToken(Head(repl), pre, m1, m2, m3, post)
         \o ExpandReplacement(Tail(repl), pre, m1, m2, m3, post)

\* Leftmost match of /(START)([\s\S]*?)(END)/: the first start marker that has
\* an end marker after it, and the first end marker after that start marker.
MatchStarts(text) ==
    {i \in 1..Len(text) :
        /\ text[i] = MARKER_START
        /\ \E j \in (i + 1)..Len(text) : text[j] = MARKER_END}
MatchStart(text) == CHOOSE i \in MatchStarts(text) : \A i2 \in MatchStarts(text) : i <= i2
MatchEnd(text, i) ==
    CHOOSE j \in (i + 1)..Len(text) :
        /\ text[j] = MARKER_END
        /\ \A j2 \in (i + 1)..(j - 1) : text[j2] # MARKER_END

\* The append branch of replaceBetweenMarkers.
AppendRegion(readmeText, newBlock) ==
    trimEnd(readmeText)
    \o <<NL, NL, MARKER_START, NL, NL, NOTICE, NL, NL>> \o newBlock \o <<NL, MARKER_END, NL>>

\* The replace branch: readmeText.replace(pattern, `$1\n\n<notice>\n${newBlock}$3`).
ReplaceRegion(readmeText, newBlock) ==
    IF MatchStarts(readmeText) = {} THEN readmeText
    ELSE LET i == MatchStart(readmeText)
             j == MatchEnd(readmeText, i)
             pre == SubSeq(readmeText, 1, i - 1)
             post == SubSeq(readmeText, j + 1, Len(readmeText))
             m2 == SubSeq(readmeText, i + 1, j - 1)
             repl == <<Tok("$1"), NL, NL, NOTICE, NL>> \o newBlock \o <<Tok("$3")>>
         IN  pre \o ExpandReplacement(repl, pre, <<MARKER_START>>, m2, <<MARKER_END>>, post) \o post

\* the marker test written with && instead of ||
replaceBetweenMarkersBothMissing(readmeText, newBlock) ==
    IF ~Includes(readmeText, MARKER_START) /\ ~Includes(readmeText, MARKER_END)
    THEN AppendRegion(readmeText, newBlock)
    ELSE ReplaceRegion(readmeText, newBlock)

replaceBetweenMarkers(readmeText, newBlock) ==
    IF ~Includes(readmeText, MARKER_START) \/ ~Includes(readmeText, MARKER_END)
    THEN AppendRegion(readmeText, newBlock)
    ELSE ReplaceRegion(readmeText, newBlock)

(***************************************************************************)
(* Record files and parseXmlFile.                                          *)
(***************************************************************************)
Paths == {"p1", "p2"}
\* the order in which the glob reports the files
PathOrder == <<"p1", "p2">>

\* raw field values of a record node: "<undef>" when the field is missing
Undef == "<undef>"
\* firstText: String(v).trim(), "" for a missing field
firstText(v) == IF v = Undef \/ v = " " THEN "" ELSE v

\* content of one record file
Absent == [kind |-> "absent", project_name |-> Undef, sys_created_on |-> Undef]
Unreadable == [kind |-> "unreadable", project_name |-> Undef, sys_created_on |-> Undef]
Malformed == [kind |-> "malformed", project_name |-> Undef, sys_created_on |-> Undef]
NoRecordNode == [kind |-> "norecord", project_name |-> Undef, sys_created_on |-> Undef]
RecordFile(name, created) == [kind |-> "record", project_name |-> name, sys_created_on |-> created]

\* created_dt values: null, a valid Date (ms), or an Invalid Date object
NullDate == [t |-> "null", ms |-> 0]
ValidDate(ms) == [t |-> "date", ms |-> ms]
InvalidDate == [t |-> "invalid", ms |-> 0]

\* sys_created_on strings: "d1", "d2", ... are well-formed date/times
DateStrings == {"d1", "d2"}
DateMs(raw) == CASE raw = "d1" -> 1 [] raw = "d2" -> 2 [] OTHER -> 0
\* new Date(createdRaw.replace(" ", "T") + "Z")
NewDate(raw) == IF raw \in DateStrings THEN ValidDate(DateMs(raw)) ELSE InvalidDate

ParseFailure == [ok |-> FALSE, path |-> "", project_name |-> "", created_dt |-> NullDate]

\* parseXmlFile without its project_name check
parseXmlFileNoNameCheck(filePath, content) ==
    IF content.kind # "record" THEN ParseFailure
    ELSE LET createdRaw == firstText(content.sys_created_on)
         IN  [ok |-> TRUE, path |-> filePath,
              project_name |-> firstText(content.project_name),
              created_dt |-> IF createdRaw # "" THEN NewDate(createdRaw) ELSE NullDate]

\* parseXmlFile: a record, or null (ParseFailure) after any error in the try
parseXmlFile(filePath, content) ==
    IF content.kind \in {"unreadable", "malformed", "norecord"} THEN ParseFailure
    ELSE LET projectName == firstText(content.project_name)
             createdRaw == firstText(content.sys_created_on)
         IN  IF projectName = "" THEN ParseFailure
             ELSE [ok |-> TRUE, path |-> filePath, project_name |-> projectName,
                   created_dt |-> IF createdRaw # "" THEN NewDate(createdRaw) ELSE NullDate]

\* the files the glob finds, in order
RECURSIVE Discovered(_, _)
Discovered(fs, order) ==
    IF order = <<>> THEN <<>>
    ELSE (IF fs[Head(order)].kind = "absent" THEN <<>> ELSE <<Head(order)>>)
         \o Discovered(fs, Tail(order))

\* main's parse loop: every file goes to parsed or to failed
RECURSIVE ParseLoop(_, _, _)
ParseLoop(fs, found, acc) ==
    IF found = <<>> THEN acc
    ELSE LET rec == parseXmlFile(Head(found), fs[Head(found)])
         IN  ParseLoop(fs, Tail(found),
                 IF rec.ok THEN [acc EXCEPT !.parsed = Append(@, rec)]
                 ELSE [acc EXCEPT !.failed = Append(@, Head(found))])

\* the comparator of parsed.sort: bv - av with -Infinity for a missing date;
\* NaN (an Invalid Date on either side) counts as 0
SortKeyLess(a, b) ==
    \* TRUE when a must come strictly before b (comparator negative)
    /\ a.created_dt.t # "invalid" /\ b.created_dt.t # "invalid"
    /\ \/ a.created_dt.t = "date" /\ b.created_dt.t = "null"
       \/ a.created_dt.t = "date" /\ b.created_dt.t = "date" /\ a.created_dt.ms > b.created_dt.ms

\* stable insertion of rec into a list sorted by the comparator
RECURSIVE InsertSorted(_, _)
InsertSorted(rec, sorted) ==
    IF sorted = <<>> THEN <<rec>>
    ELSE IF SortKeyLess(rec, Head(sorted)) THEN <<rec>> \o sorted
    ELSE <<Head(sorted)>> \o InsertSorted(rec, Tail(sorted))

\* Array.prototype.sort with that comparator (stable)
RECURSIVE SortNewestFirst(_)
SortNewestFirst(items) ==
    IF items = <<>> THEN <<>>
    ELSE InsertSorted(items[Len(items)], SortNewestFirst(SubSeq(items, 1, Len(items) - 1)))

\* the comparator as Array.prototype.sort sees it: the sign of bv - av, with
\* NaN taken as +0
Comparator(a, b) ==
    IF SortKeyLess(a, b) THEN -1 ELSE IF SortKeyLess(b, a) THEN 1 ELSE 0

\* the comparator is a consistent comparator for the elements of items: its
\* "equal", "before" and "after" relations are transitive
ConsistentComparator(items) ==
    \A i, j, k \in 1..Len(items) :
        /\ (Comparator(items[i], items[j]) = 0 /\ Comparator(items[j], items[k]) = 0)
              => Comparator(items[i], items[k]) = 0
        /\ (Comparator(items[i], items[j]) < 0 /\ Comparator(items[j], items[k]) < 0)
              => Comparator(items[i], items[k]) < 0
        /\ (Comparator(items[i], items[j]) > 0 /\ Comparator(items[j], items[k]) > 0)
              => Comparator(items[i], items[k]) > 0

Reorderings(items) ==
    {[i \in 1..Len(items) |-> items[f[i]]] :
        f \in {g \in [1..Len(items) -> 1..Len(items)] :
                  \A i, j \in 1..Len(items) : i # j => g[i] # g[j]}}

\* parsed.sort(comparator): the stable sort when the comparator is consistent,
\* else an implementation-defined order of the same elements
parsedSort(items) ==
    IF ConsistentComparator(items) THEN {SortNewestFirst(items)} ELSE Reorderings(items)

(***************************************************************************)
(* Attribution: git history and the hosting API.                           *)
(***************************************************************************)
\* an identity as the resolver returns it; isNull stands for a null result
Identity(login, avatar, url) ==
    [isNull |-> FALSE, login |-> login, avatar_url |-> avatar, html_url |-> url]
NullIdentity == [isNull |-> TRUE, login |-> "", avatar_url |-> "", html_url |-> ""]

\* `${avatar_url}&s=40`, "" when there is no avatar
SizedAvatar(avatar) == IF avatar = "" THEN "" ELSE "av&s=40"

PullRequest(createdAt, login, avatar, url) ==
    [created_at |-> createdAt, login |-> login, avatar_url |-> avatar, html_url |-> url]
NoCommit == [err |-> TRUE, linked |-> FALSE, login |-> "", avatar_url |-> "",
             html_url |-> "", rawName |-> "", rawEmail |-> ""]
\* what the outside world answers for one path: sha is the commit that added
\* the file ("" when git log gives none), pulls and commit the API answers
Response(sha, pullsErr, pulls, commit) ==
    [sha |-> sha, pullsErr |-> pullsErr, pulls |-> pulls, commit |-> commit]

\* pulls.data.sort(by created_at)[0]: the first of the earliest-created
EarliestPull(pulls) ==
    LET i == CHOOSE i \in 1..Len(pulls) :
                 /\ \A j \in 1..Len(pulls) : pulls[i].created_at <= pulls[j].created_at
                 /\ \A j \in 1..(i - 1) : pulls[j].created_at > pulls[i].created_at
    IN  pulls[i]

\* resolveAttributionForCommit giving up when the pull-request lookup throws
resolveAttributionStopsOnError(commitSha, resp) ==
    IF commitSha = "" \/ resp.pullsErr THEN NullIdentity
    ELSE IF Len(resp.pulls) > 0
    THEN LET pr == EarliestPull(resp.pulls)
         IN  Identity(pr.login, SizedAvatar(pr.avatar_url), pr.html_url)
    ELSE IF resp.commit.err THEN NullIdentity
    ELSE IF resp.commit.linked
    THEN Identity(resp.commit.login, SizedAvatar(resp.commit.avatar_url), resp.commit.html_url)
    ELSE Identity(IF resp.commit.rawName # "" THEN resp.commit.rawName
                  ELSE IF resp.commit.rawEmail # "" THEN resp.commit.rawEmail
                  ELSE "Unknown", "", "")

\* the requests resolveAttributionForCommit sends to the hosting API, in order
apiRequests(commitSha, resp) ==
    IF commitSha = "" THEN <<>>
    ELSE IF ~resp.pullsErr /\ Len(resp.pulls) > 0 THEN <<"pulls">>
    ELSE <<"pulls", "getCommit">>

resolveAttributionForCommit(commitSha, resp) ==
    IF commitSha = "" THEN NullIdentity
    ELSE IF ~resp.pullsErr /\ Len(resp.pulls) > 0
    THEN LET pr == EarliestPull(resp.pulls)
         IN  Identity(pr.login, SizedAvatar(pr.avatar_url), pr.html_url)
    ELSE IF resp.commit.err THEN NullIdentity
    ELSE IF resp.commit.linked
    THEN Identity(resp.commit.login, SizedAvatar(resp.commit.avatar_url), resp.commit.html_url)
    ELSE Identity(IF resp.commit.rawName # "" THEN resp.commit.rawName
                  ELSE IF resp.commit.rawEmail # "" THEN resp.commit.rawEmail
                  ELSE "Unknown", "", "")

\* renderSubmitterCell: what the cell shows
renderSubmitterCell(attr) ==
    [login |-> IF attr.login = "" THEN "unknown" ELSE attr.login,
     url |-> attr.html_url,
     avatar |-> IF attr.html_url = "" THEN "" ELSE attr.avatar_url]

(***************************************************************************)
(* The attribution cache: in-memory values and the JSON file.              *)
(*                                                                         *)
(* A JavaScript value in a mapping position is [t, m]: t is "obj" (a plain *)
(* object), "arr" (an array), "prim" (a truthy primitive), "falsy" (null,  *)
(* 0, false, "") or "undef" (the key is missing); m maps each path to its  *)
(* entry, has = FALSE when the object has no such key; own is the set of   *)
(* keys the object has that are not paths ("attrs", "meta").               *)
(***************************************************************************)
NoEntry == [has |-> FALSE, login |-> "", avatar_url |-> "", html_url |-> "",
            from |-> "absent", seen |-> FALSE]
Entry(login, avatar, url, from, seenFlag) ==
    [has |-> TRUE, login |-> login, avatar_url |-> avatar, html_url |-> url,
     from |-> from, seen |-> seenFlag]
EmptyMap == [p \in Paths |-> NoEntry]
JsVal(t, m) == [t |-> t, m |-> m, own |-> {}]
EmptyObject == JsVal("obj", EmptyMap)
Truthy(v) == v.t \in {"obj", "arr", "prim"}

\* the seen object: [t, s], s the set of keys whose value is true
SeenVal(t, s) == [t |-> t, s |-> s]
EmptySeen == SeenVal("obj", {})
\* meta: [t, seen, lastRun]; lastRun = -1 stands for null
MetaVal(t, seen, lastRun) == [t |-> t, seen |-> seen, lastRun |-> lastRun]
EmptyMeta == MetaVal("obj", EmptySeen, -1)

\* the cache file: absent, blank, text that JSON.parse rejects, or JSON whose
\* top-level value is top (keys attrs and meta, and path keys in top.m)
CacheAbsent == [kind |-> "absent"]
CacheBlank == [kind |-> "blank"]
CacheGarbage == [kind |-> "garbage"]
CacheJson(t, attrs, meta, m) ==
    [kind |-> "json", t |-> t, attrs |-> attrs, meta |-> meta, m |-> m]
UndefVal == JsVal("undef", EmptyMap)
UndefMeta == MetaVal("undef", EmptySeen, -1)

LoadedEmpty == [attrs |-> EmptyObject, meta |-> EmptyMeta]

\* the legacy saveCache of the first version of the script: the bare mapping
saveCacheLegacy(attrs, meta) ==
    CacheJson(attrs.t, UndefVal, UndefMeta, IF attrs.t = "obj" THEN attrs.m ELSE EmptyMap)

\* saveCacheFile: JSON.stringify({attrs: attrs || {}, meta: meta || {...}});
\* an array keeps its elements only, not its named properties
saveCacheFile(attrs, meta) ==
    CacheJson("obj",
        IF ~Truthy(attrs) THEN EmptyObject
        ELSE IF attrs.t = "arr" THEN JsVal("arr", EmptyMap) ELSE attrs,
        IF ~Truthy(meta) THEN EmptyMeta ELSE meta,
        EmptyMap)

\* the keys "attrs" and "meta" the top-level value of the file has
TopLevelKeys(file) ==
    IF file.t \notin {"obj", "arr"} THEN {}
    ELSE (IF file.attrs.t # "undef" THEN {"attrs"} ELSE {})
         \cup (IF file.meta.t # "undef" THEN {"meta"} ELSE {})

\* loadCacheFile
loadCacheFile(file) ==
    IF file.kind \in {"absent", "blank", "garbage"} THEN LoadedEmpty
    ELSE IF file.t \in {"obj", "arr"} /\ (Truthy(file.attrs) \/ Truthy(file.meta))
    THEN [attrs |-> IF Truthy(file.attrs) THEN file.attrs ELSE EmptyObject,
          meta |-> IF Truthy(file.meta) THEN file.meta ELSE EmptyMeta]
    ELSE [attrs |-> [t |-> file.t, m |-> file.m, own |-> TopLevelKeys(file)],
          meta |-> EmptyMeta]

(***************************************************************************)
(* buildTable.                                                             *)
(***************************************************************************)
\* a seen check that reads the entry's flag only
wasSeenFlagOnly(seen, key, attr) == attr.has /\ attr.seen

\* Boolean(seen[key] || (attr && attr.__seen)), read before any resolution
wasSeen(seen, key, attr) ==
    \/ seen.t = "obj" /\ key \in seen.s
    \/ attr.has /\ attr.seen

\* a lookup for every record, cached or not
needsLookupAlways(attr) == TRUE

\* a lookup test that asks for an entry only, whatever its login
needsLookupNoEntry(attr) == ~attr.has

\* !attr || !attr.login: no cached entry with a non-empty login
needsLookup(attr) == ~attr.has \/ attr.login = ""

\* it.created_dt ? it.created_dt.toISOString().slice(0, 10) : "—"
\* (toISOString of an Invalid Date throws a RangeError)
CreatedCell(dt) == IF dt.t = "date" THEN dt ELSE NullDate

\* one pass of the for loop over an item; st.threw is set when the body throws
LoopBody(st, it, resp) ==
    LET key == it.path
        attr == IF st.attrs.t \in {"obj", "arr"} THEN st.attrs.m[key] ELSE NoEntry
        lookup == needsLookup(attr)
        sha == resp[key].sha
        resolved == resolveAttributionForCommit(sha, resp[key])
        fresh == IF resolved.isNull THEN Entry("Unknown", "", "", sha, FALSE)
                 ELSE Entry(resolved.login, resolved.avatar_url, resolved.html_url, sha, FALSE)
        attr1 == IF lookup THEN fresh ELSE attr
        seenBefore == wasSeen(st.seen, key, attr)
        isNew == ~seenBefore
        attr2 == IF isNew THEN [attr1 EXCEPT !.seen = TRUE] ELSE attr1
        \* attrs[key] = attr on a primitive, seen[key] = true on a primitive
        \* (strict mode: TypeError), toISOString on an Invalid Date (RangeError)
        throws == \/ lookup /\ st.attrs.t = "prim"
                  \/ isNew /\ st.seen.t = "prim"
                  \/ it.created_dt.t = "invalid"
        row == [path |-> key, project_name |-> it.project_name, isNew |-> isNew,
                submitter |-> renderSubmitterCell(attr2), created |-> CreatedCell(it.created_dt)]
    IN  IF st.threw THEN st
        ELSE IF throws
        THEN [st EXCEPT !.threw = TRUE,
                        !.lookups = IF lookup THEN Append(@, key) ELSE @]
        ELSE [st EXCEPT !.attrs = [st.attrs EXCEPT !.m[key] = attr2],
                        !.seen = IF isNew THEN SeenVal("obj", st.seen.s \cup {key}) ELSE @,
                        !.rows = Append(@, row),
                        !.newlySeen = IF isNew THEN Append(@, key) ELSE @,
                        !.lookups = IF lookup THEN Append(@, key) ELSE @]

RECURSIVE Loop(_, _, _)
Loop(st, items, resp) ==
    IF items = <<>> THEN st ELSE Loop(LoopBody(st, Head(items), resp), Tail(items), resp)

\* the text of the table and its summary
NoIdeasYet == [k |-> "noideas"]
\* a summary that counts every row as a new submission
TableTokenCountsRows(items, st) ==
    [k |-> "table", total |-> Len(items),
     oldest |-> CreatedCell(items[Len(items)].created_dt),
     newest |-> CreatedCell(items[1].created_dt),
     newCount |-> Len(st.rows), rows |-> st.rows]

TableToken(items, st) ==
    [k |-> "table", total |-> Len(items),
     oldest |-> CreatedCell(items[Len(items)].created_dt),
     newest |-> CreatedCell(items[1].created_dt),
     newCount |-> Len(st.newlySeen), rows |-> st.rows]

\* buildTable(items) on the cache file `file`, at time t; cacheFails: the
\* write of the cache file throws.  Returns the table text, the cache file
\* left on disk and what the loop did.
\* the part of buildTable after the loop: the save of the cache and the text
\* the end of buildTable with the save of the cache in a finally block, as in
\* the first version of the script
buildTableEndInFinally(items, file, st, t, cacheFails) ==
    IF cacheFails
    THEN [threw |-> TRUE, tableMd |-> <<>>, file |-> file, rows |-> st.rows,
          newlySeen |-> st.newlySeen, lookups |-> st.lookups,
          effects |-> <<"cacheRead", "cacheWriteFailed">>]
    ELSE [threw |-> st.threw,
          tableMd |-> IF st.threw THEN <<>> ELSE <<NL, TableToken(items, st), NL>>,
          file |-> saveCacheFile(st.attrs, MetaVal("obj", st.seen, t)),
          rows |-> st.rows, newlySeen |-> st.newlySeen, lookups |-> st.lookups,
          effects |-> <<"cacheRead", "cacheWrite">>]

buildTableEnd(items, file, st, t, cacheFails) ==
    IF st.threw \/ cacheFails
    THEN [threw |-> TRUE, tableMd |-> <<>>, file |-> file, rows |-> st.rows,
          newlySeen |-> st.newlySeen, lookups |-> st.lookups,
          effects |-> IF st.threw THEN <<"cacheRead">>
                      ELSE <<"cacheRead", "cacheWriteFailed">>]
    ELSE [threw |-> FALSE, tableMd |-> <<NL, TableToken(items, st), NL>>,
          file |-> saveCacheFile(st.attrs, MetaVal("obj", st.seen, t)),
          rows |-> st.rows, newlySeen |-> st.newlySeen, lookups |-> st.lookups,
          effects |-> <<"cacheRead", "cacheWrite">>]

\* the state the loop starts from: attrs = cacheAttrs || {}, seen = meta?.seen || {}
LoopStart(loaded) ==
    [attrs |-> IF Truthy(loaded.attrs) THEN loaded.attrs ELSE EmptyObject,
     seen |-> IF loaded.meta.t = "obj" /\ Truthy(loaded.meta.seen)
              THEN loaded.meta.seen ELSE EmptySeen,
     rows |-> <<>>, newlySeen |-> <<>>, lookups |-> <<>>, threw |-> FALSE]

\* buildTable(items) on the cache file `file`, at time t; cacheFails: the
\* write of the cache file throws.  Returns the table text, the cache file
\* left on disk and what the loop did.
buildTable(items, file, resp, t, cacheFails) ==
    IF items = <<>>
    THEN [threw |-> FALSE, tableMd |-> <<NL, NoIdeasYet, NL>>, file |-> file,
          rows |-> <<>>, newlySeen |-> <<>>, lookups |-> <<>>, effects |-> <<>>]
    ELSE Pick({buildTableEnd(items, file, st, t, cacheFails) :
                  st \in {Loop(LoopStart(loadCacheFile(file)), items, resp)}})

(***************************************************************************)
(* main.                                                                   *)
(***************************************************************************)
HEADER == Tok("hdr")
\* renderContributorsMd: "" for an empty list
renderContributorsMd(contributors) ==
    IF contributors = <<>> THEN <<>>
    ELSE <<[k |-> "contributors", who |-> contributors], NL, NL>>

headerBlock(contributorsMd, tableMd) ==
    <<HEADER, NL, NL>> \o contributorsMd \o <<NL>> \o tableMd \o <<NL>>

\* readReadme
readReadme(file) == IF file.exists THEN file.text ELSE DefaultReadme

NoFile == [exists |-> FALSE, text |-> <<>>]
File(text) == [exists |-> TRUE, text |-> text]

\* current.replace(/\n_Last updated:[\s\S]*?_\n?$/, ""): from the first
\* "\n_Last updated:" on, when the text ends with "_" or "_\n" after it
TrailerStarts(text) ==
    {i \in 1..(Len(text) - 1) :
        /\ text[i] = NL /\ text[i + 1].k = "LU"
        /\ \E e \in (i + 1)..Len(text) :
              /\ EndsWithUnderscore(text[e])
              /\ e = Len(text) \/ (e = Len(text) - 1 /\ text[Len(text)] = NL)}
StripLastUpdated(text) ==
    IF TrailerStarts(text) = {} THEN text
    ELSE LET i == CHOOSE i \in TrailerStarts(text) : \A i2 \in TrailerStarts(text) : i <= i2
         IN  SubSeq(text, 1, i - 1)

\* the text main leaves in README.md after its second write
Stamped(updated, t) ==
    trimEnd(StripLastUpdated(updated)) \o <<NL, NL>> \o <<NL, LastUpdatedLine(t), NL>>

NoRun == [ran |-> FALSE, dry |-> FALSE, exit |-> 0, found |-> <<>>, parsed |-> <<>>,
          failed |-> <<>>, rows |-> <<>>, newlySeen |-> <<>>, lookups |-> <<>>,
          unchanged |-> FALSE, effects |-> <<>>, stdout |-> <<>>]

\* the backup step: fs.copyFileSync(README_PATH, BACKUP_PATH) in a try/catch,
\* when not in dry-run and README.md exists
BackupStep(dry, file, old, backupFails) ==
    IF ~dry /\ file.exists /\ ~backupFails THEN File(file.text) ELSE old

\* postPrComment: skipped without a PR number; createComment in a try/catch
postPrCommentUncaught(prNumber, fails) ==
    IF prNumber = "" THEN [fx |-> <<>>, threw |-> FALSE]
    ELSE IF fails THEN [fx |-> <<"commentFailed">>, threw |-> TRUE]
    ELSE [fx |-> <<"comment">>, threw |-> FALSE]

postPrComment(prNumber, fails) ==
    IF prNumber = "" THEN [fx |-> <<>>, threw |-> FALSE]
    ELSE IF fails THEN [fx |-> <<"commentFailed">>, threw |-> FALSE]
    ELSE [fx |-> <<"comment">>, threw |-> FALSE]

\* the end of main, after the document step: the run summary comment
mainEnd(r, fail) ==
    LET c == postPrComment(env.PR_NUMBER, fail = "comment")
    IN  [r EXCEPT !.obs.effects = @ \o c.fx,
                  !.obs.exit = IF c.threw THEN 1 ELSE @]

\* main from the backup step on: parsed is the sorted list, split the parse
\* loop's two lists, bt what buildTable returned, text what readReadme
\* returned, updated what replaceBetweenMarkers returned
mainWrite(dry, t, fail, found, split, parsed, bt, text, updated) ==
    LET backup1 == BackupStep(dry, readme, backup, fail = "backup")
        obs == [ran |-> TRUE, dry |-> dry, exit |-> 0, found |-> found,
                parsed |-> [i \in 1..Len(parsed) |-> parsed[i].path],
                failed |-> split.failed, rows |-> bt.rows, newlySeen |-> bt.newlySeen,
                lookups |-> bt.lookups, unchanged |-> FALSE, effects |-> bt.effects,
                stdout |-> <<>>]
        backupFx == IF dry \/ ~readme.exists THEN <<>>
                    ELSE IF fail = "backup" THEN <<"backupWriteFailed">>
                    ELSE <<"backupWrite">>
    IN  IF bt.threw
        THEN [readme |-> readme, backup |-> backup, cacheFile |-> bt.file,
              obs |-> [obs EXCEPT !.exit = 1]]
        ELSE IF dry
        THEN mainEnd([readme |-> readme, backup |-> backup1, cacheFile |-> bt.file,
                      obs |-> [obs EXCEPT !.stdout = updated]], fail)
        ELSE IF updated = text
        THEN mainEnd([readme |-> readme, backup |-> backup1, cacheFile |-> bt.file,
                      obs |-> [obs EXCEPT !.unchanged = TRUE, !.effects = @ \o backupFx]],
                     fail)
        ELSE IF fail = "write"
        THEN [readme |-> readme, backup |-> backup1, cacheFile |-> bt.file,
              obs |-> [obs EXCEPT !.exit = 1,
                                  !.effects = @ \o backupFx \o <<"readmeWriteFailed">>]]
        ELSE IF fail = "rewrite"
        THEN [readme |-> File(updated), backup |-> backup1, cacheFile |-> bt.file,
              obs |-> [obs EXCEPT !.exit = 1,
                                  !.effects = @ \o backupFx
                                                \o <<"readmeWrite", "readmeWriteFailed">>]]
        ELSE mainEnd([readme |-> File(Stamped(updated, t)), backup |-> backup1,
                      cacheFile |-> bt.file,
                      obs |-> [obs EXCEPT !.effects = @ \o backupFx
                                                       \o <<"readmeWrite", "readmeWrite">>]],
                     fail)

\* main from buildTable on
mainRender(dry, t, fail, found, split, parsed) ==
    Pick({Pick({mainWrite(dry, t, fail, found, split, parsed, bt, readReadme(readme), updated) :
                   updated \in {replaceBetweenMarkers(readReadme(readme),
                                   headerBlock(renderContributorsMd(remote.contributors),
                                               bt.tableMd))}}) :
             bt \in {buildTable(parsed, cacheFile, remote.resp, t, fail = "cache")}})

\* One run of main: dry is --dry-run, t the time the clock shows, fail the
\* operation the environment makes fail in this run ("none" for no failure).
\* Returns the possible outcomes of the run, each the files left on disk and
\* the observation of the run.
main(dry, t, fail) ==
    UNION {UNION {{mainRender(dry, t, fail, found, split, sorted) :
                      sorted \in parsedSort(split.parsed)} :
                   split \in {ParseLoop(files, found, [parsed |-> <<>>, failed |-> <<>>])}} :
             found \in {Discovered(files, PathOrder)}}

(***************************************************************************)
(* The pipeline as a state machine: runs of main, and the environment      *)
(* (contributors adding record files, the hosting API) changing between    *)
(* runs.                                                                   *)
(***************************************************************************)
FileContents(p) ==
    IF p = "p1"
    THEN {Absent, Malformed, RecordFile("Idea", Undef), RecordFile("Idea", "garbage"),
          RecordFile("Idea", "d1")}
    ELSE {Absent, RecordFile("Idea", "d2")}
FileSystems == {f \in [Paths -> UNION {FileContents(p) : p \in Paths}] :
                   \A p \in Paths : f[p] \in FileContents(p)}

\* the file was added by a commit of a pull request of alice
RespPullRequest ==
    Response("c1", FALSE, <<PullRequest(1, "alice", "av", "url")>>, NoCommit)
\* git log finds no adding commit (shallow clone)
RespNoHistory == Response("", FALSE, <<>>, NoCommit)
\* the pull request's user has no login
RespNoLogin == Response("c1", FALSE, <<PullRequest(1, "", "", "")>>, NoCommit)
Responses == {RespPullRequest, RespNoHistory, RespNoLogin}

\* the process environment: a run for pull request 7, or PR_NUMBER unset
PullRequestRun == [PR_NUMBER |-> "7"]
NoPullRequest == [PR_NUMBER |-> ""]

World(r, contributors) == [resp |-> [p \in Paths |-> r], contributors |-> contributors]
RemoteWorlds ==
    {World(r, <<"alice">>) : r \in Responses} \cup {World(RespPullRequest, <<>>)}

ReadmeWithMarkers == File(<<TXT, NL, MARKER_START, TXT, MARKER_END, NL, TXT, NL>>)
InitialReadmes == {NoFile, File(<<TXT, NL>>), ReadmeWithMarkers}

\* a cache file the first version of the script left: a bare mapping
LegacyCache ==
    CacheJson("obj", UndefVal, UndefMeta,
              [p \in Paths |-> IF p = "p1" THEN Entry("alice", "av&s=40", "url", "absent", FALSE)
                               ELSE NoEntry])
InitialCaches == {CacheAbsent, LegacyCache}
\* cache files this program never writes: damaged or hand-edited
DamagedCaches ==
    {CacheBlank, CacheGarbage,
     CacheJson("falsy", UndefVal, UndefMeta, EmptyMap),
     CacheJson("prim", UndefVal, UndefMeta, EmptyMap),
     CacheJson("arr", UndefVal, UndefMeta, EmptyMap),
     CacheJson("obj", JsVal("prim", EmptyMap), UndefMeta, EmptyMap),
     CacheJson("obj", UndefVal, MetaVal("obj", SeenVal("prim", {}), -1), EmptyMap)}

PureIdle == fin = <<>> /\ fout = <<>> /\ fop = "none"

PipeInit(readmes, caches) ==
    /\ files \in FileSystems
    /\ remote \in RemoteWorlds
    /\ env = PullRequestRun
    /\ readme \in readmes
    /\ backup = NoFile
    /\ cacheFile \in caches
    /\ now = 0
    /\ last = NoRun
    /\ PureIdle

Init == PipeInit(InitialReadmes, InitialCaches)

\* one run of main, with no failure of the file system
Run(dry, fail) ==
    /\ now < MaxRuns
    /\ \E r \in main(dry, now + 1, fail) :
          /\ readme' = r.readme
          /\ backup' = r.backup
          /\ cacheFile' = r.cacheFile
          /\ last' = r.obs
    /\ now' = now + 1
    /\ UNCHANGED <<files, remote, env, pureVars>>

\* a record file is added, removed or edited between two runs
FileChanges(p, c) ==
    /\ c # files[p]
    /\ files' = [files EXCEPT ![p] = c]
    /\ last' = NoRun
    /\ UNCHANGED <<remote, env, readme, backup, cacheFile, now, pureVars>>

Next ==
    \/ \E dry \in BOOLEAN : Run(dry, "none")
    \/ \E p \in Paths : \E c \in FileContents(p) : FileChanges(p, c)

Spec == Init /\ [][Next]_vars

\* the same pipeline started on a cache file that is damaged or hand-edited
InitDamaged == PipeInit({ReadmeWithMarkers}, DamagedCaches)
SpecDamaged == InitDamaged /\ [][Next]_vars

\* a step of the behaviour that is a run of main
IsRun == now' = now + 1

\* the same pipeline where the answers of git and the hosting API change
\* between runs (a pull request is merged, the API recovers or fails); runs
\* are not dry and start without README.md; a record file is well-formed or
\* absent
WellFormed(p) == {c \in FileContents(p) : c = Absent \/ c.sys_created_on \in DateStrings}
RemoteChanges(w) ==
    /\ w # remote
    /\ remote' = w
    /\ last' = NoRun
    /\ UNCHANGED <<files, env, readme, backup, cacheFile, now, pureVars>>
InitRemote ==
    /\ files \in {f \in FileSystems : \A p \in Paths : f[p] \in WellFormed(p)}
    /\ remote \in RemoteWorlds
    /\ env = PullRequestRun
    /\ readme = NoFile
    /\ backup = NoFile
    /\ cacheFile \in InitialCaches
    /\ now = 0
    /\ last = NoRun
    /\ PureIdle
NextRemote ==
    \/ Run(FALSE, "none")
    \/ \E p \in Paths : \E c \in WellFormed(p) : FileChanges(p, c)
    \/ \E w \in RemoteWorlds : RemoteChanges(w)
SpecRemote == InitRemote /\ [][NextRemote]_vars

\* the same pipeline, on record files that stay as they are, where one
\* operation of a run may fail: the copy to the backup, the first or the second write of README.md, the write of the cache
\* file, the posting of the comment
Failures == {"none", "backup", "write", "rewrite", "cache", "comment"}
InitFaulty ==
    /\ files \in FileSystems
    /\ remote = World(RespPullRequest, <<"alice">>)
    /\ env \in {PullRequestRun, NoPullRequest}
    /\ readme \in InitialReadmes
    /\ backup = NoFile
    /\ cacheFile = CacheAbsent
    /\ now = 0
    /\ last = NoRun
    /\ PureIdle
NextFaulty == \E dry \in BOOLEAN : \E fail \in Failures : Run(dry, fail)
SpecFaulty == InitFaulty /\ [][NextFaulty]_vars

(***************************************************************************)
(* Pure functions, applied to inputs drawn from bounded sets.              *)
(***************************************************************************)
PipeIdle ==
    /\ files = [p \in Paths |-> Absent]
    /\ remote = World(RespNoHistory, <<>>)
    /\ env = NoPullRequest
    /\ readme = NoFile
    /\ backup = NoFile
    /\ cacheFile = CacheAbsent
    /\ now = 0
    /\ last = NoRun

SeqsUpTo(alphabet, n) == UNION {[1..k -> alphabet] : k \in 0..n}

\* replaceBetweenMarkers on every short document and block
DocAlphabet == {MARKER_START, MARKER_END, TXT, NL, SP}
BlockAlphabet == {TXT, NL, Tok("$&")}
InitInject ==
    /\ PipeIdle
    /\ fin \in [doc : SeqsUpTo(DocAlphabet, MaxDocLen), block : SeqsUpTo(BlockAlphabet, MaxBlockLen)]
    /\ fout = <<>>
    /\ fop = "doc"
Inject ==
    /\ fop = "doc"
    /\ fout' = replaceBetweenMarkers(fin.doc, fin.block)
    /\ fop' = "injected"
    /\ UNCHANGED <<fin, pipeVars>>
NextInject == Inject
SpecInject == InitInject /\ [][NextInject]_vars

\* replaceBetweenMarkers applied to its own result, with the same block
InitInjectTwice ==
    /\ PipeIdle
    /\ fin \in [doc : SeqsUpTo(DocAlphabet, MaxDocLen), block : SeqsUpTo(BlockAlphabet, MaxBlockLen)]
    /\ fout = [once |-> <<>>, twice |-> <<>>]
    /\ fop = "doc2"
InjectOnce ==
    /\ fop = "doc2"
    /\ fout' = [fout EXCEPT !.once = replaceBetweenMarkers(fin.doc, fin.block)]
    /\ fop' = "injectedOnce"
    /\ UNCHANGED <<fin, pipeVars>>
InjectTwice ==
    /\ fop = "injectedOnce"
    /\ fout' = [fout EXCEPT !.twice = replaceBetweenMarkers(fout.once, fin.block)]
    /\ fop' = "injectedTwice"
    /\ UNCHANGED <<fin, pipeVars>>
NextInjectTwice == InjectOnce \/ InjectTwice
SpecInjectTwice == InitInjectTwice /\ [][NextInjectTwice]_vars

\* main's parse loop on every combination of file contents
AllFileContents ==
    {Absent, Unreadable, Malformed, NoRecordNode}
    \cup {RecordFile(n, c) : n \in {Undef, "", " ", "Idea"}, c \in {Undef, "garbage", "d1"}}
InitParse ==
    /\ PipeIdle
    /\ fin \in [Paths -> AllFileContents]
    /\ fout = <<>>
    /\ fop = "files"
ParseAll ==
    /\ fop = "files"
    /\ fout' = ParseLoop(fin, Discovered(fin, PathOrder), [parsed |-> <<>>, failed |-> <<>>])
    /\ fop' = "parsed"
    /\ UNCHANGED <<fin, pipeVars>>
NextParse == ParseAll
SpecParse == InitParse /\ [][NextParse]_vars

\* saveCacheFile then loadCacheFile on every small mapping and seen set
CachedEntries ==
    {NoEntry, Entry("alice", "av&s=40", "url", "c1", TRUE), Entry("alice", "av&s=40", "url", "c1", FALSE),
     Entry("", "", "", "c1", TRUE), Entry("Unknown", "", "", "", TRUE)}
InitCache ==
    /\ PipeIdle
    /\ fin \in [attrs : {JsVal("obj", m) : m \in [Paths -> CachedEntries]},
                seen : {SeenVal("obj", s) : s \in SUBSET Paths},
                lastRun : {1}]
    /\ fout = [file |-> CacheAbsent, loaded |-> LoadedEmpty]
    /\ fop = "cache"
Save ==
    /\ fop = "cache"
    /\ fout' = [fout EXCEPT !.file = saveCacheFile(fin.attrs, MetaVal("obj", fin.seen, fin.lastRun))]
    /\ fop' = "saved"
    /\ UNCHANGED <<fin, pipeVars>>
Load ==
    /\ fop = "saved"
    /\ fout' = [fout EXCEPT !.loaded = loadCacheFile(fout.file)]
    /\ fop' = "loaded"
    /\ UNCHANGED <<fin, pipeVars>>
NextCache == Save \/ Load
SpecCache == InitCache /\ [][NextCache]_vars

\* loadCacheFile on every small cache file: absent, blank, unparseable, a
\* bare mapping, and a wrapper whose halves are objects, null or missing
LoadableMaps ==
    [Paths -> {NoEntry, Entry("alice", "av&s=40", "url", "c1", FALSE),
               Entry("", "", "", "c1", TRUE)}]
LoadableFiles ==
    {CacheAbsent, CacheBlank, CacheGarbage}
    \cup {CacheJson("obj", a, mt, m) :
            a \in {UndefVal, JsVal("falsy", EmptyMap)}
                     \cup {JsVal("obj", am) : am \in LoadableMaps},
            mt \in {UndefMeta, MetaVal("falsy", EmptySeen, -1)}
                      \cup {MetaVal("obj", SeenVal("obj", sn), 1) : sn \in SUBSET Paths},
            m \in {EmptyMap, LegacyCache.m}}
InitLoad ==
    /\ PipeIdle
    /\ fin \in LoadableFiles
    /\ fout = LoadedEmpty
    /\ fop = "file"
LoadFile ==
    /\ fop = "file"
    /\ fout' = loadCacheFile(fin)
    /\ fop' = "fileLoaded"
    /\ UNCHANGED <<fin, pipeVars>>
NextLoad == LoadFile
SpecLoad == InitLoad /\ [][NextLoad]_vars

\* resolveAttributionForCommit on every small answer of git and the API
SomePulls ==
    {PullRequest(c, l, IF l = "" THEN "" ELSE "av", IF l = "" THEN "" ELSE "url") :
        c \in {1, 2}, l \in {"alice", "bob", ""}}
LinkedCommit(login) ==
    [err |-> FALSE, linked |-> TRUE, login |-> login,
     avatar_url |-> IF login = "" THEN "" ELSE "av",
     html_url |-> IF login = "" THEN "" ELSE "url", rawName |-> "Carol", rawEmail |-> "c@x"]
RawCommit(name, email) ==
    [err |-> FALSE, linked |-> FALSE, login |-> "", avatar_url |-> "", html_url |-> "",
     rawName |-> name, rawEmail |-> email]
SomeCommits ==
    {NoCommit, LinkedCommit("carol"), LinkedCommit(""),
     RawCommit("Carol", "c@x"), RawCommit("", "c@x"), RawCommit("", "")}
InitResolve ==
    /\ PipeIdle
    /\ fin \in {Response(sha, e, pl, c) :
                   sha \in {"", "c1"}, e \in BOOLEAN,
                   pl \in SeqsUpTo(SomePulls, MaxPulls), c \in SomeCommits}
    /\ fout = [result |-> NullIdentity, requests |-> <<>>]
    /\ fop = "sha"
Resolve ==
    /\ fop = "sha"
    /\ fout' = [result |-> resolveAttributionForCommit(fin.sha, fin),
                requests |-> apiRequests(fin.sha, fin)]
    /\ fop' = "resolved"
    /\ UNCHANGED <<fin, pipeVars>>
NextResolve == Resolve
SpecResolve == InitResolve /\ [][NextResolve]_vars

\* parsed.sort on every short list of parsed records
RecordNames == <<"r1", "r2", "r3", "r4">>
SomeDates == {NullDate, InvalidDate, ValidDate(1), ValidDate(2)}
ParsedLists ==
    {[i \in 1..n |-> [ok |-> TRUE, path |-> RecordNames[i], project_name |-> "Idea",
                      created_dt |-> d[i]]] :
        n \in 0..MaxRecords, d \in [1..MaxRecords -> SomeDates]}
InitSort ==
    /\ PipeIdle
    /\ fin \in ParsedLists
    /\ fout = <<>>
    /\ fop = "list"
Sort ==
    /\ fop = "list"
    /\ \E sorted \in parsedSort(fin) : fout' = sorted
    /\ fop' = "sorted"
    /\ UNCHANGED <<fin, pipeVars>>
NextSort == Sort
SpecSort == InitSort /\ [][NextSort]_vars

(***************************************************************************)
(* Properties.                                                             *)
(***************************************************************************)
\* the persisted cache marks path p as seen: in meta.seen, or by the __seen
\* flag of its entry
MarkedSeen(file, p) ==
    /\ file.kind = "json"
    /\ \/ file.meta.t = "obj" /\ file.meta.seen.t = "obj" /\ p \in file.meta.seen.s
       \/ file.attrs.t \in {"obj", "arr"} /\ file.attrs.m[p].has /\ file.attrs.m[p].seen
       \/ file.m[p].has /\ file.m[p].seen

HasInvalidDate(fs) ==
    \E p \in Paths : fs[p].kind = "record" /\ fs[p].sys_created_on = "garbage"

\* C1: a run started with --dry-run leaves README.md, README_backup.md and
\* .idea_attribution.json exactly as they were.
DryRunWritesNothing ==
    [][(IsRun /\ last'.dry)
          => (readme' = readme /\ backup' = backup /\ cacheFile' = cacheFile)]_vars

\* C2: a path the persisted cache marks as seen stays marked, and no run
\* renders a row with the new-submission marker for a path the cache it
\* started from marks as seen.
SeenNeverNewAgain ==
    [][/\ \A p \in Paths : MarkedSeen(cacheFile, p) => MarkedSeen(cacheFile', p)
       /\ IsRun => \A i \in 1..Len(last'.rows) :
                      last'.rows[i].isNew => ~MarkedSeen(cacheFile, last'.rows[i].path)]_vars
\* a run has rendered, without the marker, a path that had been marked seen
\* by an earlier run
SeenNeverNewAgainWitness ==
    /\ last.ran /\ now >= 2
    /\ \E i \in 1..Len(last.rows) :
          ~last.rows[i].isNew /\ MarkedSeen(cacheFile, last.rows[i].path)

\* C3: a non-dry run that directly follows a completed non-dry run on the
\* same files and remote answers takes the unchanged branch and leaves
\* README.md as the first run left it.
SecondRunLeavesDocument ==
    [][(IsRun /\ last.ran /\ ~last.dry /\ last.exit = 0 /\ ~last'.dry)
          => (last'.unchanged /\ readme' = readme)]_vars

MarkerMissing(doc) == ~Includes(doc, MARKER_START) \/ ~Includes(doc, MARKER_END)
IsPrefix(a, b) == Len(a) <= Len(b) /\ SubSeq(b, 1, Len(a)) = a
IsSuffix(a, b) == Len(a) <= Len(b) /\ SubSeq(b, Len(b) - Len(a) + 1, Len(b)) = a
FreshRegion(block) ==
    <<MARKER_START, NL, NL, NOTICE, NL, NL>> \o block \o <<NL, MARKER_END, NL>>

\* C4: when both markers occur, inject returns the document with the text
\* strictly between a start marker and an end marker replaced by the notice
\* and the block, everything else unchanged.
InjectReplacesBetweenMarkers ==
    (fop = "injected" /\ ~MarkerMissing(fin.doc))
        => \E i, j \in 1..Len(fin.doc) :
              /\ i < j /\ fin.doc[i] = MARKER_START /\ fin.doc[j] = MARKER_END
              /\ fout = SubSeq(fin.doc, 1, i) \o <<NL, NL, NOTICE, NL>> \o fin.block
                        \o SubSeq(fin.doc, j, Len(fin.doc))

\* C5 as stated: when a marker is missing, inject returns the existing
\* content, unaltered, followed by a fresh region at the end.
InjectAppendsKeepingContent ==
    (fop = "injected" /\ MarkerMissing(fin.doc))
        => (IsPrefix(fin.doc, fout) /\ IsSuffix(FreshRegion(fin.block), fout))

\* C5 amended: when a marker is missing, inject returns the existing content
\* without its trailing whitespace, followed by a blank line and a fresh
\* region (start marker, notice, block, end marker).
InjectAppendsAfterTrim ==
    (fop = "injected" /\ MarkerMissing(fin.doc))
        => \E k \in 0..Len(fin.doc) :
              /\ \A i \in (k + 1)..Len(fin.doc) : IsWhitespace(fin.doc[i])
              /\ k > 0 => ~IsWhitespace(fin.doc[k])
              /\ fout = SubSeq(fin.doc, 1, k) \o <<NL, NL>> \o FreshRegion(fin.block)
\* inject has appended a region to a document that holds one marker only and
\* ends in whitespace
InjectAppendsAfterTrimWitness ==
    /\ fop = "injected"
    /\ fin.doc = <<MARKER_START, TXT, SP>>
    /\ fin.block = <<TXT>>
    /\ fout = <<MARKER_START, TXT, NL, NL>> \o FreshRegion(<<TXT>>)

\* C6: a non-dry run whose computed document equals the document it read
\* writes neither README.md nor README_backup.md.
UnchangedRunWritesNothing ==
    [][(IsRun /\ ~last'.dry /\ last'.unchanged)
          => (readme' = readme /\ backup' = backup)]_vars

\* C7: the parse loop puts every discovered file in exactly one of the parsed
\* and failed lists, whatever the files before it did, and every parsed
\* record has a non-empty project name.
PathsOf(recs) == {recs[i].path : i \in 1..Len(recs)}
Elems(sq) == {sq[i] : i \in 1..Len(sq)}
ParsePartitionsFiles ==
    fop = "parsed"
        => /\ \A i \in 1..Len(fout.parsed) :
                 fout.parsed[i].ok /\ fout.parsed[i].project_name # ""
           /\ PathsOf(fout.parsed) \cup Elems(fout.failed)
                 = {p \in Paths : fin[p].kind # "absent"}
           /\ PathsOf(fout.parsed) \cap Elems(fout.failed) = {}
           /\ Len(fout.parsed) + Len(fout.failed)
                 = Cardinality({p \in Paths : fin[p].kind # "absent"})
\* the first file failed for an empty project name and the one after it was
\* parsed
ParsePartitionsFilesWitness ==
    /\ fop = "parsed"
    /\ fin["p1"] = RecordFile(" ", "d1")
    /\ fout.failed = <<"p1">>
    /\ PathsOf(fout.parsed) = {"p2"}

\* C8: a record whose sys_created_on is not a valid date is rendered with the
\* placeholder date and the run completes.
InvalidDateIsNullDate ==
    (last.ran /\ HasInvalidDate(files))
        => /\ last.exit = 0
           /\ \A p \in Paths :
                 (files[p].kind = "record" /\ files[p].sys_created_on = "garbage")
                    => \E i \in 1..Len(last.rows) :
                          last.rows[i].path = p /\ last.rows[i].created = NullDate

\* C9: a run started on a cache file that is missing, empty, unparseable or
\* JSON that is not an object completes (no error escapes load or the
\* rendering).
UnusableCaches ==
    {CacheAbsent, CacheBlank, CacheGarbage,
     CacheJson("falsy", UndefVal, UndefMeta, EmptyMap),
     CacheJson("prim", UndefVal, UndefMeta, EmptyMap),
     CacheJson("arr", UndefVal, UndefMeta, EmptyMap)}
DamagedCacheNeverFailsRun ==
    [][(IsRun /\ cacheFile \in UnusableCaches /\ ~HasInvalidDate(files))
          => last'.exit = 0]_vars

\* C10: loadCacheFile after saveCacheFile returns the mapping and the seen
\* set that were saved.
CacheRoundTrip ==
    fop = "loaded"
        => (fout.loaded.attrs = fin.attrs /\ fout.loaded.meta.seen = fin.seen)
\* the empty mapping and the empty seen set have been saved and loaded
CacheRoundTripWitness ==
    /\ fop = "loaded"
    /\ fin.attrs = EmptyObject /\ fin.seen = EmptySeen
    /\ fout.file.kind = "json"

\* C11: loading a bare mapping (no attrs key, no meta key) gives that
\* mapping and empty metadata; loading a file that has an attrs or a meta key
\* gives those halves, a half that is missing or null being empty.
HasWrapperKey(file) == file.attrs.t # "undef" \/ file.meta.t # "undef"
LoadDetectsShape ==
    (fop = "fileLoaded" /\ fin.kind = "json")
        => IF HasWrapperKey(fin)
           THEN /\ fout.attrs = (IF fin.attrs.t = "obj" THEN fin.attrs ELSE EmptyObject)
                /\ fout.meta = (IF fin.meta.t = "obj" THEN fin.meta ELSE EmptyMeta)
           ELSE /\ fout.attrs = JsVal("obj", fin.m)
                /\ fout.meta = EmptyMeta

\* C12: attribution resolution follows the fallback order: no commit, null
\* and no request; else the author of an earliest-created pull request; else
\* (lookup failed or found none) the commit's linked account; else the raw
\* author name or email; null only when the commit lookup fails.
PullsFound(resp) == ~resp.pullsErr /\ resp.pulls # <<>>
SortedNewestFirst ==
    fop = "sorted" =>
        /\ fout \in Reorderings(fin)
        /\ \A i, j \in 1..Len(fout) :
              /\ (fout[i].created_dt.t = "date" /\ fout[j].created_dt.t = "date"
                    /\ fout[i].created_dt.ms > fout[j].created_dt.ms) => i < j
              /\ (fout[i].created_dt.t = "date" /\ fout[j].created_dt.t = "null") => i < j

\* C14: a run in which the backup copy or the posting of the comment fails
\* goes on and exits 0 (the document is still written when it changed); a
\* run in which a write of README.md fails exits 1.
Did(fx, what) == \E i \in 1..Len(fx) : fx[i] = what
FailureClasses ==
    last.ran =>
        /\ Did(last.effects, "backupWriteFailed") =>
              (last.exit = 0 /\ (last.unchanged \/ Did(last.effects, "readmeWrite")))
        /\ Did(last.effects, "commentFailed") => last.exit = 0
        /\ Did(last.effects, "readmeWriteFailed") => last.exit = 1
\* the backup copy failed and the run still wrote the document and the comment
FailureClassesWitness ==
    /\ last.ran /\ last.exit = 0
    /\ Did(last.effects, "backupWriteFailed")
    /\ Did(last.effects, "readmeWrite")
    /\ Did(last.effects, "comment")

\* C15: a non-dry run on a README.md that holds both markers leaves the text
\* before the start marker and the text after the end marker as they were.
TextBefore(text) == SubSeq(text, 1, MatchStart(text) - 1)
TextAfter(text) == SubSeq(text, MatchEnd(text, MatchStart(text)) + 1, Len(text))
OutsideMarkersKept ==
    [][(IsRun /\ ~last'.dry /\ readme.exists /\ MatchStarts(readme.text) # {})
          => /\ readme'.exists /\ MatchStarts(readme'.text) # {}
             /\ TextBefore(readme'.text) = TextBefore(readme.text)
             /\ TextAfter(readme'.text) = TextAfter(readme.text)]_vars

\* C16: the date range of the summary runs from the earliest to the latest
\* creation date among the rendered records that have a known timestamp,
\* whatever undated records are rendered with them.
DatedRows(rows) == {i \in 1..Len(rows) : rows[i].created.t = "date"}
DateRangeOverDated ==
    (last.ran /\ ~last.dry /\ last.exit = 0 /\ DatedRows(last.rows) # {})
        => \A k \in 1..Len(readme.text) :
              readme.text[k].k = "table" =>
                 /\ \E i \in DatedRows(last.rows) :
                       /\ readme.text[k].oldest = last.rows[i].created
                       /\ \A j \in DatedRows(last.rows) :
                             last.rows[i].created.ms <= last.rows[j].created.ms
                 /\ \E i \in DatedRows(last.rows) :
                       /\ readme.text[k].newest = last.rows[i].created
                       /\ \A j \in DatedRows(last.rows) :
                             last.rows[i].created.ms >= last.rows[j].created.ms

\* C17: in a run, a row carries the new-submission marker exactly when the
\* cache file the run started from does not mark its path as seen; the cache
\* file the run saves marks every such path as seen; and the summary's count
\* of new submissions is the number of rows that carry the marker.
NewRows(rows) == {i \in 1..Len(rows) : rows[i].isNew}
NewMarkerIffUnseen ==
    [][IsRun =>
          /\ \A i \in 1..Len(last'.rows) :
                last'.rows[i].isNew <=> ~MarkedSeen(cacheFile, last'.rows[i].path)
          /\ Did(last'.effects, "cacheWrite") =>
                \A i \in NewRows(last'.rows) : MarkedSeen(cacheFile', last'.rows[i].path)
          /\ (last'.exit = 0 /\ last'.rows # <<>>) =>
                LET text == IF last'.dry THEN last'.stdout ELSE readme'.text
                IN  /\ \E k \in 1..Len(text) : text[k].k = "table"
                    /\ \A k \in 1..Len(text) :
                          text[k].k = "table" =>
                             text[k].newCount = Cardinality(NewRows(last'.rows))]_vars
\* a run has rendered one row with the marker and one without, and the cache
\* it saved marks both paths as seen
NewMarkerIffUnseenWitness ==
    /\ last.ran /\ last.exit = 0 /\ Len(last.rows) = 2
    /\ Cardinality(NewRows(last.rows)) = 1
    /\ \A p \in Paths : MarkedSeen(cacheFile, p)

\* C18: a run looks up the history and the remote attribution of a record
\* exactly when the cache it loaded has no entry with a non-empty login for
\* the record's path; a record that has such an entry is rendered from it.
CachedEntry(file, p) ==
    LET loaded == loadCacheFile(file).attrs
    IN  IF loaded.t \in {"obj", "arr"} THEN loaded.m[p] ELSE NoEntry
HasLogin(file, p) == CachedEntry(file, p).has /\ CachedEntry(file, p).login # ""
LookupIffNotCached ==
    [][IsRun =>
          /\ \A i \in 1..Len(last'.lookups) : ~HasLogin(cacheFile, last'.lookups[i])
          /\ last'.exit = 0 =>
                \A i \in 1..Len(last'.parsed) :
                   Did(last'.lookups, last'.parsed[i]) <=> ~HasLogin(cacheFile, last'.parsed[i])
          /\ \A i \in 1..Len(last'.rows) :
                HasLogin(cacheFile, last'.rows[i].path) =>
                   last'.rows[i].submitter
                      = renderSubmitterCell(CachedEntry(cacheFile, last'.rows[i].path))]_vars
\* a run has rendered two records, one from its cached identity and one
\* after a lookup
LookupIffNotCachedWitness ==
    /\ last.ran /\ last.exit = 0 /\ Len(last.rows) = 2
    /\ last.lookups = <<"p2">>
    /\ HasLogin(cacheFile, "p1")
    /\ \E i \in 1..2 : last.rows[i].path = "p1" /\ last.rows[i].submitter.login = "alice"

\* C19: in a non-dry run that writes README.md, the cache file is written
\* after the document, never before it.
CacheWrittenAfterDocument ==
    (last.ran /\ ~last.dry /\ Did(last.effects, "readmeWrite"))
        => \A i, j \in 1..Len(last.effects) :
              (last.effects[i] = "cacheWrite" /\ last.effects[j] = "readmeWrite") => j < i

\* C20: after a completed non-dry run the cache file exists and has the
\* wrapper shape: an object with an attrs mapping and a meta object.
IsWrapper(file) ==
    /\ file.kind = "json" /\ file.t = "obj"
    /\ file.attrs.t \in {"obj", "arr"}
    /\ file.meta.t = "obj"
CompletedRunLeavesWrapper ==
    [][(IsRun /\ ~last'.dry /\ last'.exit = 0) => IsWrapper(cacheFile')]_vars

\* C21: inject applied to its own result with the same block gives that
\* result again, for every document and block.
InjectIdempotent ==
    fop = "injectedTwice" => fout.twice = fout.once

\* C22: a path is marked as seen in the persisted cache only by a run that
\* writes to README.md a table row for that path carrying the new-submission
\* marker (no later run renders the marker for it: C2).
PublishedNew(text, p) ==
    \E k \in 1..Len(text) :
        /\ text[k].k = "table"
        /\ \E i \in 1..Len(text[k].rows) :
              text[k].rows[i].path = p /\ text[k].rows[i].isNew
SeenOnlyWhenPublished ==
    [][\A p \in Paths :
          (~MarkedSeen(cacheFile, p) /\ MarkedSeen(cacheFile', p))
             => /\ Did(last'.effects, "readmeWrite")
                /\ readme'.exists /\ PublishedNew(readme'.text, p)]_vars

\* C23: once the persisted cache holds an entry with a non-empty login for a
\* path, no run looks that path up again or changes its login, whatever the
\* remote would answer now; and no step removes a path from the attribution
\* mapping or from the seen set, whether or not its record file still exists.
InSeenSet(file, p) ==
    /\ file.kind = "json" /\ file.meta.t = "obj"
    /\ file.meta.seen.t = "obj" /\ p \in file.meta.seen.s
CacheFrozenAndGrowing ==
    [][\A p \in Paths :
          /\ HasLogin(cacheFile, p) =>
                /\ HasLogin(cacheFile', p)
                /\ CachedEntry(cacheFile', p).login = CachedEntry(cacheFile, p).login
                /\ IsRun => ~Did(last'.lookups, p)
          /\ CachedEntry(cacheFile, p).has => CachedEntry(cacheFile', p).has
          /\ InSeenSet(cacheFile, p) => InSeenSet(cacheFile', p)]_vars
\* a run has rendered p2 from the placeholder stored after a failed
\* resolution, without a lookup, although the remote now knows the author;
\* the cache still holds the entry of p1, whose record file is gone
CacheFrozenAndGrowingWitness ==
    /\ last.ran /\ last.exit = 0 /\ last.lookups = <<>>
    /\ \E i \in 1..Len(last.rows) :
          last.rows[i].path = "p2" /\ last.rows[i].submitter.login = "Unknown"
    /\ remote.resp["p2"] = RespPullRequest
    /\ files["p1"] = Absent /\ HasLogin(cacheFile, "p1")

\* C24: a run that aborts inside the renderer's loop over the records leaves
\* the cache file, README.md and README_backup.md as they were.
AbortedInLoop(obs) ==
    /\ obs.ran /\ obs.exit = 1
    /\ ~Did(obs.effects, "cacheWriteFailed") /\ ~Did(obs.effects, "readmeWriteFailed")
====
